---- MODULE Spec2Model ----
(***************************************************************************)
(* A model of cappelletto/bayesian-inference:                              *)
(*   - predict_impl            (src/src/bnn_inference/predict.py)          *)
(*   - Console.error / quit    (src/src/bnn_inference/tools/console.py)    *)
(*   - load_dataset, evaluate_regression, main   (src/bnn_geotech.py)      *)
(* Strings are sequences of one-character strings, so that the regular     *)
(* expression search of DataFrame.filter(regex=...) and the building of    *)
(* column names are computed and not assumed.  The keys of the model hold  *)
(* no regex metacharacter, for which re.search is a substring search.      *)
(* Real numbers are exact: a mean is a rational <<num, den>>, a standard   *)
(* deviation is coef * sqrt(num / den).                                    *)
(* The means evaluate_regression returns are float32 values m * 2^(-e).    *)
(***************************************************************************)
EXTENDS Integers, Sequences, FiniteSets, TLC

(* ------------------------------ bounds --------------------------------- *)
MaxRows == 2
MaxOut == 2
MaxSamples == 2
MaxScale == 2
MaxLatents == 2
MaxBatches == 2
MaxTargets == 3
MaxEvalSamples == 2

(* ------------------------- program constants --------------------------- *)
DefaultSamples == 20
NumEpochs == 100
EvalPeriod == 100

(* ------------------------------ strings -------------------------------- *)
Digit(i) ==
    CASE i = 0 -> "0" [] i = 1 -> "1" [] i = 2 -> "2" [] i = 3 -> "3"
      [] i = 4 -> "4" [] i = 5 -> "5" [] i = 6 -> "6" [] i = 7 -> "7"
      [] i = 8 -> "8" [] OTHER -> "9"

RECURSIVE Str(_)
Str(i) == IF i < 10 THEN <<Digit(i)>> ELSE Str(i \div 10) \o <<Digit(i % 10)>>

\* re.search(pattern, name) for a pattern without metacharacters
ReSearch(pattern, name) ==
    \E k \in 0..(Len(name) - Len(pattern)) :
        SubSeq(name, k + 1, k + Len(pattern)) = pattern

\* list(df.filter(regex=pattern)): the columns whose name the pattern matches
FilterRegex(cols, pattern) == SelectSeq(cols, LAMBDA c : ReSearch(pattern, c))

LatentPrefix == <<"l", "a", "t", "e", "n", "t", "_">>
PredictedKey == <<"p", "r", "e", "d", "i", "c", "t", "e", "d">>
PredPrefix == <<"p", "r", "e", "d", "_">>
StdPrefix == <<"s", "t", "d", "_">>
IndexName == <<"i", "n", "d", "e", "x">>

\* "pred_" + output_key + "_" + str(i)
PredColumn(key, i) == PredPrefix \o key \o <<"_">> \o Str(i)
\* "std_" + output_key + "_" + str(i)
StdColumn(key, i) == StdPrefix \o key \o <<"_">> \o Str(i)

(* ------------------------------ helpers -------------------------------- *)
Range(s) == {s[i] : i \in DOMAIN s}

RECURSIVE SumSeq(_)
SumSeq(s) == IF s = <<>> THEN 0 ELSE s[1] + SumSeq(Tail(s))

\* Python truthiness of an optional number: None (<<>>) and 0 are false
Truthy(opt) == opt # <<>> /\ opt[1] # 0

(* ------------------------- numpy arrays -------------------------------- *)
(* An array is [shape, data]: data is the flat row-major list of entries.  *)
Array(shape, data) == [shape |-> shape, data |-> data]

RECURSIVE Concat(_)
Concat(ss) == IF ss = <<>> THEN <<>> ELSE ss[1] \o Concat(Tail(ss))

\* np.array(list_of_arrays): a new leading axis of the list's length
Stack(list) ==
    IF list = <<>> THEN Array(<<0>>, <<>>)
    ELSE Array(<<Len(list)>> \o list[1].shape,
               Concat([k \in DOMAIN list |-> list[k].data]))

\* np.squeeze(a): every axis of length 1 is removed, the entries are kept
Squeeze(a) == Array(SelectSeq(a.shape, LAMBDA n : n # 1), a.data)

\* np.mean(list, axis=0): entry e is the mean over the list, a rational
MeanAxis0(list) ==
    Array(list[1].shape,
          [e \in DOMAIN list[1].data |->
              <<SumSeq([k \in DOMAIN list |-> list[k].data[e]]), Len(list)>>])

\* np.std(list, axis=0): entry e is sqrt(mean(y^2) - mean(y)^2), ddof = 0,
\* kept as coef * sqrt(num / den)
StdAxis0(list) ==
    Array(list[1].shape,
          [e \in DOMAIN list[1].data |->
              LET K == Len(list)
                  S == SumSeq([k \in DOMAIN list |-> list[k].data[e]])
                  Q == SumSeq([k \in DOMAIN list |->
                                  list[k].data[e] * list[k].data[e]])
              IN  [coef |-> 1, num |-> K * Q - S * S, den |-> K * K]])

\* array * scalar, for an array of means
TimesMean(a, s) ==
    Array(a.shape, [e \in DOMAIN a.data |-> <<a.data[e][1] * s, a.data[e][2]>>])

\* array * scalar, for an array of standard deviations
TimesStd(a, s) ==
    Array(a.shape,
          [e \in DOMAIN a.data |-> [a.data[e] EXCEPT !.coef = a.data[e].coef * s]])

(* ------------------------- pandas frames ------------------------------- *)
(* A frame is [cols, rows]: rows[j] lists row j's cells in column order.   *)
(* A table read with index_col=0 also keeps index_name and ids.            *)
Frame(cols, rows) == [cols |-> cols, rows |-> rows]

\* pd.DataFrame(array, columns=names) accepts 1-d (as one column) and 2-d
\* input whose width is the number of names, and raises ValueError otherwise
DataFrameRaises(a, names) ==
    \/ Len(a.shape) = 0
    \/ Len(a.shape) > 2
    \/ Len(a.shape) = 1 /\ Len(names) # 1
    \/ Len(a.shape) = 2 /\ a.shape[2] # Len(names)

DataFrame(a, names) ==
    LET n == a.shape[1]
        w == IF Len(a.shape) = 1 THEN 1 ELSE a.shape[2]
    IN  Frame(names,
              [j \in 1..n |-> [c \in 1..w |-> a.data[(j - 1) * w + c]]])

\* df.reset_index(drop=True): the index is discarded
ResetIndexDropped(t) == Frame(t.cols, t.rows)

\* df.reset_index(drop=False): the index becomes the first column
ResetIndexKeep(t) ==
    Frame(<<t.index_name>> \o t.cols,
          [j \in DOMAIN t.rows |-> <<t.ids[j]>> \o t.rows[j]])

\* pd.concat([a, b], axis=1) of two frames with a fresh 0..n-1 index:
\* rows are joined by position, a missing side is filled with NaN
ConcatAxis1(a, b) ==
    LET n == IF Len(a.rows) >= Len(b.rows) THEN Len(a.rows) ELSE Len(b.rows)
        side(f, j) == IF j <= Len(f.rows) THEN f.rows[j]
                      ELSE [c \in DOMAIN f.cols |-> "nan"]
    IN  Frame(a.cols \o b.cols, [j \in 1..n |-> side(a, j) \o side(b, j)])

\* df.drop(names, axis=1): the columns named are removed with their cells
DropColumns(f, names) ==
    LET keep == {c \in DOMAIN f.cols : f.cols[c] \notin Range(names)}
        pick(s) == LET RECURSIVE P(_)
                       P(c) == IF c > Len(f.cols) THEN <<>>
                               ELSE (IF c \in keep THEN <<s[c]>> ELSE <<>>) \o P(c + 1)
                   IN  P(1)
    IN  Frame(pick(f.cols), [j \in DOMAIN f.rows |-> pick(f.rows[j])])

\* df.index.names = ["index"]; df.to_csv(name): the index is the first column
ToCsv(f) ==
    Frame(<<IndexName>> \o f.cols,
          [j \in DOMAIN f.rows |-> <<j - 1>> \o f.rows[j]])

\* df.filter(regex=pattern).values: the cells of the matching columns
FilterValues(t, pattern) ==
    LET keep == {c \in DOMAIN t.cols : ReSearch(pattern, t.cols[c])}
        pick(s) == LET RECURSIVE P(_)
                       P(c) == IF c > Len(t.cols) THEN <<>>
                               ELSE (IF c \in keep THEN <<s[c]>> ELSE <<>>) \o P(c + 1)
                   IN  P(1)
    IN  [j \in DOMAIN t.rows |-> pick(t.rows[j])]

(* ------------------------------ inputs --------------------------------- *)
(* A file is <<>> when it does not exist and <<content>> when it does.     *)
IsFile(f) == f # <<>>

\* a CSV: identifier column "id", metadata column "x", L latent columns
\* named <prefix>0 .. <prefix>(L-1); nan is the set of rows holding a NaN
Table(prefix, L, N, nan) ==
    [index_name |-> <<"i", "d">>,
     ids |-> [j \in 1..N |-> 100 + j],
     cols |-> <<<<"x">>>> \o [c \in 1..L |-> prefix \o Str(c - 1)],
     rows |-> [j \in 1..N |-> <<10 * j>> \o [c \in 1..L |-> j + c]],
     nan |-> nan]

NoTable == [index_name |-> <<>>, ids |-> <<>>, cols |-> <<>>, rows |-> <<>>, nan |-> {}]

LatentPrefixes == {LatentPrefix, <<"h">>}

LatentFiles ==
    {<<>>} \cup {<<Table(p, L, N, {})>> :
                    p \in LatentPrefixes, L \in 1..MaxLatents, N \in 1..MaxRows}

\* a checkpoint: the rows of linear_output.weight are the outputs, the
\* state dict fixes the input width
NetworkFiles ==
    {<<>>} \cup {<<[in_dim |-> a, out_dim |-> b]>> :
                    a \in 1..MaxLatents, b \in 1..MaxOut}

\* None is <<>>, a number v is <<v>>
SampleArgs == {<<>>} \cup {<<v>> : v \in 0..MaxSamples}
ScaleArgs == {<<>>} \cup {<<v>> : v \in (-1)..MaxScale}
\* None and "" are both <<>>: Python treats both as false
TargetKeys == {<<>>, <<"z">>, LatentPrefix \o <<"z">>}
LatentKeys == {<<>>, <<"h">>, <<"x">>}
Seeds == {0, 1}

(* ------------------------------ state ---------------------------------- *)
VARIABLES
    pc,                       \* position in predict_impl
    latent_csv, output_network_filename,
    num_samples, scale_factor, target_key, latent_key,
    seed, rng,                \* the tensor library's random generator
    console,                  \* what Console printed: the kinds, in order
    k_samples, output_key, input_key, scaling_factor,
    np_latent, n_latents, df, output_size,
    X_norm, idx, x, n, predictions, predicted, uncertainty,
    passes,                   \* history: per row, the (input, output) of each forward pass
    pdf, udf, output_df,
    written,                  \* the output CSV: <<>> until to_csv writes it
    gpc,                      \* position in main of bnn_geotech.py
    dataset_file, Xd, yd,
    tpc,                      \* position in the training loop of main
    n_batches,                \* len(dataloader_train)
    epoch, bi, iteration, evals,
    steps,                    \* history: the steps of the current mini-batch
    epc,                      \* position in evaluate_regression
    X_eval, y_eval, samples, std_multiplier,
    eval_seed,                \* the random generator's seed in that call
    preds,
    hits,                     \* history: the numbers of targets passing each test
    ic_acc, under_ci_upper, over_ci_lower

inVars == <<latent_csv, output_network_filename, num_samples, scale_factor,
            target_key, latent_key, seed>>
cfgVars == <<k_samples, output_key, input_key, scaling_factor>>
loadVars == <<np_latent, n_latents, df, output_size>>
loopVars == <<X_norm, idx, x, n, predictions, predicted, uncertainty, passes, rng>>
outVars == <<pdf, udf, output_df, written>>
predictVars == <<pc, console, inVars, cfgVars, loadVars, loopVars, outVars>>

geoVars == <<gpc, dataset_file, Xd, yd>>
trainVars == <<tpc, n_batches, epoch, bi, iteration, evals, steps>>
evalVars == <<epc, X_eval, y_eval, samples, std_multiplier, eval_seed, preds,
              hits, ic_acc, under_ci_upper, over_ci_lower>>
vars == <<predictVars, geoVars, trainVars, evalVars>>

NoFrame == Frame(<<>>, <<>>)

\* a Python value that is an int (a dataset would have kind "rows")
PyInt(v) == [kind |-> "int", val |-> <<v>>]

IdleGeotech ==
    /\ gpc = "idle" /\ dataset_file = <<>> /\ Xd = PyInt(0) /\ yd = 0

\* a float32: m * 2^(-e); zero is m = 0
Float32(m, e) == [m |-> m, e |-> e]

IdleEval ==
    /\ epc = "idle" /\ X_eval = <<>> /\ y_eval = <<>> /\ samples = 0
    /\ std_multiplier = 0 /\ eval_seed = 0 /\ preds = <<>>
    /\ hits = [inside |-> 0, upper |-> 0, lower |-> 0]
    /\ ic_acc = Float32(0, 0) /\ under_ci_upper = Float32(0, 0)
    /\ over_ci_lower = Float32(0, 0)

IdleTrain ==
    /\ tpc = "idle" /\ n_batches = 0 /\ epoch = 0 /\ bi = 0
    /\ iteration = 0 /\ evals = 0 /\ steps = <<>>

\* the locals of predict_impl before it assigns them
FreshLocals ==
    /\ rng = 0
    /\ console = <<>>
    /\ k_samples = 0 /\ output_key = <<>> /\ input_key = <<>> /\ scaling_factor = 0
    /\ np_latent = <<>> /\ n_latents = 0 /\ df = NoTable /\ output_size = 0
    /\ X_norm = <<>> /\ idx = 0 /\ x = <<>> /\ n = 0
    /\ predictions = <<>> /\ predicted = <<>> /\ uncertainty = <<>>
    /\ passes = <<>>
    /\ pdf = NoFrame /\ udf = NoFrame /\ output_df = NoFrame
    /\ written = <<>>

IdlePredict ==
    /\ pc = "idle"
    /\ latent_csv = <<>> /\ output_network_filename = <<>>
    /\ num_samples = <<>> /\ scale_factor = <<>>
    /\ target_key = <<>> /\ latent_key = <<>> /\ seed = 0
    /\ FreshLocals

\* a call of predict_impl: any files, any arguments
InitPredict ==
    /\ pc = "check_latent"
    /\ latent_csv \in LatentFiles
    /\ output_network_filename \in NetworkFiles
    /\ num_samples \in SampleArgs
    /\ scale_factor \in ScaleArgs
    /\ target_key \in TargetKeys
    /\ latent_key \in LatentKeys
    /\ seed \in Seeds
    /\ FreshLocals
    /\ IdleGeotech
    /\ IdleTrain
    /\ IdleEval

(* ------------------------------ Console -------------------------------- *)
\* Console.error prints and returns: the caller goes on at `next`
ConsoleError(next) == next

\* Console.quit prints and calls sys.exit(): the caller never goes on
ConsoleQuitReturns(next) == next

ConsoleQuit(next) == "exited"

(* --------------------------- predict_impl ------------------------------ *)
\* lines 43-51: looking for the CSV with the latent vectors
CheckLatent ==
    /\ pc = "check_latent"
    /\ UNCHANGED <<geoVars, trainVars, evalVars>>
    /\ IF IsFile(latent_csv)
       THEN /\ console' = Append(console, "info")
            /\ pc' = "check_network"
       ELSE /\ console' = Append(console, "error")
            /\ pc' = ConsoleError("check_network")
    /\ UNCHANGED <<inVars, cfgVars, loadVars, loopVars, outVars>>

\* lines 53-57: check for the pre-trained network
CheckNetwork ==
    /\ pc = "check_network"
    /\ UNCHANGED <<geoVars, trainVars, evalVars>>
    /\ IF IsFile(output_network_filename)
       THEN /\ console' = Append(console, "info")
            /\ pc' = "configure"
       ELSE /\ console' = Append(console, "quit")
            /\ pc' = ConsoleQuit("configure")
    /\ UNCHANGED <<inVars, cfgVars, loadVars, loopVars, outVars>>

\* line 74-77
KSamples(arg) == IF Truthy(arg) THEN arg[1] ELSE DefaultSamples
\* lines 79-82
OutputKey(arg) == IF arg # <<>> THEN arg ELSE PredictedKey
\* lines 84-87
InputKey(arg) == IF arg # <<>> THEN arg ELSE LatentPrefix
\* lines 89-92
ScalingFactor(arg) == IF Truthy(arg) THEN arg[1] ELSE 1

\* lines 59-92: the defaults of the optional parameters
Configure ==
    /\ pc = "configure"
    /\ UNCHANGED <<geoVars, trainVars, evalVars>>
    /\ k_samples' = KSamples(num_samples)
    /\ output_key' = OutputKey(target_key)
    /\ input_key' = InputKey(latent_key)
    /\ scaling_factor' = ScalingFactor(scale_factor)
    /\ console' = Append(console, "info")
    /\ pc' = "load_data"
    /\ UNCHANGED <<inVars, loadVars, loopVars, outVars>>

\* PredictiveEngine.loadData(filename, input_key_prefix): the table read with
\* its first column as index, the cells of the columns the prefix matches,
\* and their number
LoadData(t, prefix) ==
    [np_latent |-> FilterValues(t, prefix),
     n_latents |-> Len(FilterRegex(t.cols, prefix)),
     df |-> t]

\* the prefix predict_impl hands to loadData: the literal "latent_"
LoadDataPrefix == LatentPrefix

\* lines 94-97: load the latent input; reading a missing file raises
LoadLatent ==
    /\ pc = "load_data"
    /\ UNCHANGED <<geoVars, trainVars, evalVars>>
    /\ console' = Append(console, "info")
    /\ IF IsFile(latent_csv)
       THEN LET r == LoadData(latent_csv[1], LoadDataPrefix)
            IN  /\ np_latent' = r.np_latent
                /\ n_latents' = r.n_latents
                /\ df' = r.df
                /\ pc' = "load_network"
       ELSE /\ pc' = "raised"
            /\ UNCHANGED <<np_latent, n_latents, df>>
    /\ UNCHANGED <<inVars, cfgVars, output_size, loopVars, outVars>>

\* lines 99-151: load the checkpoint, size the regressor from it, load its
\* state; load_state_dict raises when the regressor built for n_latents
\* inputs does not have the checkpoint's shapes
LoadNetwork ==
    /\ pc = "load_network"
    /\ UNCHANGED <<geoVars, trainVars, evalVars>>
    /\ console' = Append(console, "info")
    /\ output_size' = output_network_filename[1].out_dim
    /\ pc' = IF n_latents = output_network_filename[1].in_dim
             THEN "prepare" ELSE "raised"
    /\ UNCHANGED <<inVars, cfgVars, np_latent, n_latents, df, loopVars, outVars>>

\* lines 153-165: X_norm is the latent data as loaded
Prepare ==
    /\ pc = "prepare"
    /\ UNCHANGED <<geoVars, trainVars, evalVars>>
    /\ X_norm' = np_latent
    /\ idx' = 0
    /\ uncertainty' = <<>>
    /\ predicted' = <<>>
    /\ pc' = "row"
    /\ UNCHANGED <<console, inVars, cfgVars, loadVars, x, n, predictions, passes,
                   rng, outVars>>

\* regressor(x_): one stochastic forward pass on a 1 x L input gives a
\* 1 x D output that depends on the input and on the generator's state
Regressor(xin, dout, s, r) ==
    Array(<<1, dout>>, [d \in 1..dout |-> d * SumSeq(xin) + ((s + r) % 3)])

\* the list the samples of a row are collected in, at the row's start
PredictionsKept(old) == old

PredictionsAtRowStart(old) == <<>>

\* lines 168-169: the next row; its list of samples starts empty
RowBegin ==
    /\ pc = "row"
    /\ UNCHANGED <<geoVars, trainVars, evalVars>>
    /\ idx < Len(X_norm)
    /\ x' = X_norm[idx + 1]
    /\ predictions' = PredictionsAtRowStart(predictions)
    /\ n' = 0
    /\ passes' = Append(passes, <<>>)
    /\ pc' = "sample"
    /\ UNCHANGED <<console, inVars, cfgVars, loadVars, X_norm, idx, predicted,
                   uncertainty, rng, outVars>>

\* lines 170-174: one of the k_samples forward passes of the row
ForwardPass ==
    /\ pc = "sample"
    /\ UNCHANGED <<geoVars, trainVars, evalVars>>
    /\ n < k_samples
    /\ LET y == Regressor(x, output_size, seed, rng)
       IN  /\ predictions' = Append(predictions, y)
           /\ passes' = [passes EXCEPT ![Len(passes)] =
                            Append(@, [x |-> x, y |-> y])]
    /\ rng' = rng + 1
    /\ n' = n + 1
    /\ UNCHANGED <<pc, console, inVars, cfgVars, loadVars, X_norm, idx, x,
                   predicted, uncertainty, outVars>>

\* line 176
PMeanUnscaled(list, s) == MeanAxis0(list)

PMean(list, s) == TimesMean(MeanAxis0(list), s)

\* line 177
PStdv(list, s) == TimesStd(StdAxis0(list), s)

\* lines 176-182: the row's mean and standard deviation, scaled
RowStats ==
    /\ pc = "sample"
    /\ UNCHANGED <<geoVars, trainVars, evalVars>>
    /\ n >= k_samples
    /\ predicted' = Append(predicted, PMean(predictions, scaling_factor))
    /\ uncertainty' = Append(uncertainty, PStdv(predictions, scaling_factor))
    /\ idx' = idx + 1
    /\ pc' = "row"
    /\ UNCHANGED <<console, inVars, cfgVars, loadVars, X_norm, x, n, predictions,
                   passes, rng, outVars>>

\* lines 192-199
PredColumns(key, size) == [i \in 1..size |-> PredColumn(key, i - 1)]
\* lines 204-211
StdColumns(key, size) == [i \in 1..size |-> StdColumn(key, i - 1)]

\* lines 186-215: squeeze the stacked results and frame them; DataFrame
\* raises when the squeezed array does not fit the column names
BuildFrames ==
    /\ pc = "row"
    /\ UNCHANGED <<geoVars, trainVars, evalVars>>
    /\ idx >= Len(X_norm)
    /\ LET p == Squeeze(Stack(predicted))
           u == Squeeze(Stack(uncertainty))
           pn == PredColumns(output_key, output_size)
           un == StdColumns(output_key, output_size)
       IN  IF DataFrameRaises(p, pn)
           THEN /\ pc' = "raised"
                /\ UNCHANGED <<pdf, udf>>
           ELSE /\ pdf' = DataFrame(p, pn)
                /\ IF DataFrameRaises(u, un)
                   THEN /\ pc' = "raised"
                        /\ UNCHANGED udf
                   ELSE /\ udf' = DataFrame(u, un)
                        /\ pc' = "merge"
    /\ UNCHANGED <<console, inVars, cfgVars, loadVars, loopVars, output_df, written>>

\* lines 217-231: the results are joined to the input table by row order
Merge ==
    /\ pc = "merge"
    /\ UNCHANGED <<geoVars, trainVars, evalVars>>
    /\ output_df' = ConcatAxis1(ResetIndexKeep(df), ConcatAxis1(pdf, udf))
    /\ pc' = "drop"
    /\ UNCHANGED <<console, inVars, cfgVars, loadVars, loopVars, pdf, udf, written>>

\* lines 233-241: drop the columns the input key matches
DropLatent ==
    /\ pc = "drop"
    /\ UNCHANGED <<geoVars, trainVars, evalVars>>
    /\ output_df' = DropColumns(output_df, FilterRegex(output_df.cols, input_key))
    /\ pc' = "export"
    /\ UNCHANGED <<console, inVars, cfgVars, loadVars, loopVars, pdf, udf, written>>

\* lines 243-249
Export ==
    /\ pc = "export"
    /\ UNCHANGED <<geoVars, trainVars, evalVars>>
    /\ written' = <<ToCsv(output_df)>>
    /\ console' = Append(console, "done")
    /\ pc' = "done"
    /\ UNCHANGED <<inVars, cfgVars, loadVars, loopVars, pdf, udf, output_df>>

NextPredict ==
    \/ CheckLatent \/ CheckNetwork \/ Configure \/ LoadLatent \/ LoadNetwork
    \/ Prepare \/ RowBegin \/ ForwardPass \/ RowStats \/ BuildFrames
    \/ Merge \/ DropLatent \/ Export

SpecPredict == InitPredict /\ [][NextPredict]_vars

(* ---------------------------- bnn_geotech.py --------------------------- *)
\* load_dataset, lines 22-35: the dataset it returns is the constant 1, with
\* the number of columns the prefix matches
LoadDataset(t, prefix) ==
    [dataset |-> PyInt(1), n_latents |-> Len(FilterRegex(t.cols, prefix))]

GeotechPrefixes == LatentPrefixes \cup {<<"z">>}

DatasetFiles ==
    {<<>>} \cup {<<Table(p, L, N, nan)>> :
                    p \in GeotechPrefixes, L \in 1..MaxLatents,
                    N \in 1..MaxRows, nan \in SUBSET (1..MaxRows)}

InitGeotech ==
    /\ gpc = "main"
    /\ dataset_file \in {f \in DatasetFiles :
                            f # <<>> => f[1].nan \subseteq DOMAIN f[1].rows}
    /\ Xd = PyInt(0) /\ yd = 0
    /\ IdlePredict
    /\ IdleTrain
    /\ IdleEval

\* main, lines 76-78
MainBegin ==
    /\ gpc = "main"
    /\ UNCHANGED <<predictVars, trainVars, evalVars>>
    /\ gpc' = "load"
    /\ UNCHANGED <<dataset_file, Xd, yd>>

\* main, line 80: Xd, yd = load_dataset(dataset_filename); read_csv of a
\* missing file raises
MainLoad ==
    /\ gpc = "load"
    /\ UNCHANGED <<predictVars, trainVars, evalVars>>
    /\ IF IsFile(dataset_file)
       THEN LET r == LoadDataset(dataset_file[1], LatentPrefix)
            IN  /\ Xd' = r.dataset
                /\ yd' = r.n_latents
                /\ gpc' = "exit"
       ELSE /\ gpc' = "raised"
            /\ UNCHANGED <<Xd, yd>>
    /\ UNCHANGED dataset_file

\* main, line 82: sys.exit(0); nothing after it runs
MainExit ==
    /\ gpc = "exit"
    /\ UNCHANGED <<predictVars, trainVars, evalVars>>
    /\ gpc' = "exited"
    /\ UNCHANGED <<dataset_file, Xd, yd>>

NextGeotech == MainBegin \/ MainLoad \/ MainExit

SpecGeotech == InitGeotech /\ [][NextGeotech]_vars

(* ------------------- the training loop of main, 112-134 ---------------- *)
\* line 112: iteration = 0, before the first epoch
InitTrain ==
    /\ tpc = "epoch"
    /\ n_batches \in 1..MaxBatches
    /\ epoch = 0 /\ bi = 0 /\ iteration = 0 /\ evals = 0 /\ steps = <<>>
    /\ IdlePredict
    /\ IdleGeotech
    /\ IdleEval

\* line 113: for epoch in range(100)
EpochBegin ==
    /\ tpc = "epoch"
    /\ UNCHANGED <<predictVars, geoVars, evalVars>>
    /\ epoch < NumEpochs
    /\ bi' = 0
    /\ tpc' = "batch"
    /\ UNCHANGED <<n_batches, epoch, iteration, evals, steps>>

\* line 113: the range is exhausted, main returns
TrainEnd ==
    /\ tpc = "epoch"
    /\ UNCHANGED <<predictVars, geoVars, evalVars>>
    /\ epoch >= NumEpochs
    /\ tpc' = "end"
    /\ UNCHANGED <<n_batches, epoch, bi, iteration, evals, steps>>

\* line 114: the next mini-batch of the epoch, or the epoch's end
BatchBegin ==
    /\ tpc = "batch"
    /\ UNCHANGED <<predictVars, geoVars, evalVars>>
    /\ IF bi < n_batches
       THEN /\ tpc' = "zero_grad"
            /\ steps' = <<>>
            /\ UNCHANGED epoch
       ELSE /\ tpc' = "epoch"
            /\ epoch' = epoch + 1
            /\ UNCHANGED steps
    /\ UNCHANGED <<n_batches, bi, iteration, evals>>

\* line 115: optimizer.zero_grad()
ZeroGrad ==
    /\ tpc = "zero_grad"
    /\ UNCHANGED <<predictVars, geoVars, evalVars>>
    /\ steps' = Append(steps, "zero_grad")
    /\ tpc' = "sample_elbo"
    /\ UNCHANGED <<n_batches, epoch, bi, iteration, evals>>

\* lines 117-121: loss = regressor.sample_elbo(...)
SampleElbo ==
    /\ tpc = "sample_elbo"
    /\ UNCHANGED <<predictVars, geoVars, evalVars>>
    /\ steps' = Append(steps, "sample_elbo")
    /\ tpc' = "backward"
    /\ UNCHANGED <<n_batches, epoch, bi, iteration, evals>>

\* line 122: loss.backward()
Backward ==
    /\ tpc = "backward"
    /\ UNCHANGED <<predictVars, geoVars, evalVars>>
    /\ steps' = Append(steps, "backward")
    /\ tpc' = "optimizer_step"
    /\ UNCHANGED <<n_batches, epoch, bi, iteration, evals>>

\* line 123: optimizer.step()
OptimizerStep ==
    /\ tpc = "optimizer_step"
    /\ UNCHANGED <<predictVars, geoVars, evalVars>>
    /\ steps' = Append(steps, "optimizer_step")
    /\ tpc' = "count"
    /\ UNCHANGED <<n_batches, epoch, bi, iteration, evals>>

\* line 126: iteration % 100 == 0
EvalDueBeforeCount(it) == (it - 1) % EvalPeriod = 0

EvalDue(it) == it % EvalPeriod = 0

\* lines 125-126: count the mini-batch, then evaluate or go to the next one
CountIteration ==
    /\ tpc = "count"
    /\ UNCHANGED <<predictVars, geoVars, evalVars>>
    /\ iteration' = iteration + 1
    /\ IF EvalDue(iteration')
       THEN /\ tpc' = "evaluate"
            /\ UNCHANGED bi
       ELSE /\ tpc' = "batch"
            /\ bi' = bi + 1
    /\ UNCHANGED <<n_batches, epoch, evals, steps>>

\* lines 127-134: evaluate_regression on the held-out set, and the report
Evaluate ==
    /\ tpc = "evaluate"
    /\ UNCHANGED <<predictVars, geoVars, evalVars>>
    /\ evals' = evals + 1
    /\ steps' = Append(steps, "evaluate")
    /\ bi' = bi + 1
    /\ tpc' = "batch"
    /\ UNCHANGED <<n_batches, epoch, iteration>>

NextTrain ==
    \/ EpochBegin \/ TrainEnd \/ BatchBegin \/ ZeroGrad \/ SampleElbo
    \/ Backward \/ OptimizerStep \/ CountIteration \/ Evaluate

SpecTrain == InitTrain /\ [][NextTrain]_vars

(* --------------------- bnn_geotech.py: evaluate_regression ------------- *)
RECURSIVE Pow2(_)
Pow2(e) == IF e = 0 THEN 1 ELSE 2 * Pow2(e - 1)

\* the integer nearest to a / b, a tie going to the even one
RoundHalfEven(a, b) ==
    LET q == a \div b
        r == a % b
    IN  IF 2 * r > b \/ (2 * r = b /\ q % 2 = 1) THEN q + 1 ELSE q

RECURSIVE Float32Exp(_, _, _)
Float32Exp(k, total, e) ==
    IF k * Pow2(e) >= total * Pow2(23) THEN e ELSE Float32Exp(k, total, e + 1)

\* tensor.float().mean() of `total` zeros and ones, k of them ones: the
\* float32 nearest to k / total, with a 24-bit significand
Float32Div(k, total) ==
    IF k = 0 THEN Float32(0, 0)
    ELSE LET e == Float32Exp(k, total, 23)
             m == RoundHalfEven(k * Pow2(e), total)
         IN  IF m = Pow2(24) THEN Float32(Pow2(23), e - 1) ELSE Float32(m, e)

\* the samples of target i in the stacked predictions
SamplesOf(p, i) == [k \in DOMAIN p |-> p[k][i]]

\* preds.mean(axis=0) of one target: the rational <<sum, K>>
TorchMean(col) == <<SumSeq(col), Len(col)>>

\* preds.std(axis=0) of one target: torch's deviation is the unbiased one,
\* sqrt(num / den) with den = K (K - 1), and NaN for a single sample
TorchStd(col) ==
    LET K == Len(col)
        S == SumSeq(col)
        Q == SumSeq([k \in DOMAIN col |-> col[k] * col[k]])
    IN  [nan |-> K = 1, num |-> K * Q - S * S, den |-> K * (K - 1)]

\* means + c * stds of one target
Bound(mean, c, std) == [mean |-> mean, c |-> c, std |-> std]

\* d / K <= c * sqrt(std.num / std.den), compared exactly; a NaN deviation
\* makes every comparison False
LeScaledStd(d, K, c, std) ==
    IF std.nan THEN FALSE
    ELSE LET lhs == d * d * std.den
             rhs == c * c * std.num * K * K
         IN  IF c >= 0 THEN d <= 0 \/ lhs <= rhs
                       ELSE d <= 0 /\ lhs >= rhs

\* bound >= target
BoundGe(b, t) == LeScaledStd(t * b.mean[2] - b.mean[1], b.mean[2], b.c, b.std)

\* bound <= target
BoundLe(b, t) == LeScaledStd(b.mean[1] - t * b.mean[2], b.mean[2], -b.c, b.std)

CiUpper(p, mult, i) ==
    Bound(TorchMean(SamplesOf(p, i)), mult, TorchStd(SamplesOf(p, i)))

CiLower(p, mult, i) ==
    Bound(TorchMean(SamplesOf(p, i)), -mult, TorchStd(SamplesOf(p, i)))

InsideEither(lower_ok, upper_ok) == lower_ok \/ upper_ok

\* (ci_lower <= y) * (ci_upper >= y)
InsideInterval(lower_ok, upper_ok) == lower_ok /\ upper_ok

UpperHits(p, mult, t) ==
    {i \in DOMAIN t : BoundGe(CiUpper(p, mult, i), t[i])}

LowerHits(p, mult, t) ==
    {i \in DOMAIN t : BoundLe(CiLower(p, mult, i), t[i])}

InsideHits(p, mult, t) ==
    {i \in DOMAIN t : InsideInterval(BoundLe(CiLower(p, mult, i), t[i]),
                                     BoundGe(CiUpper(p, mult, i), t[i]))}

StdMultipliers == {-1, 0, 2, 3}

InitEval ==
    /\ IdlePredict
    /\ IdleGeotech
    /\ IdleTrain
    /\ epc = "sample"
    /\ \E size \in 1..MaxTargets :
          /\ X_eval = [i \in 1..size |-> <<i>>]
          /\ y_eval \in [1..size -> 0..4]
    /\ samples \in 0..MaxEvalSamples
    /\ std_multiplier \in StdMultipliers
    /\ eval_seed \in Seeds
    /\ preds = <<>>
    /\ hits = [inside |-> 0, upper |-> 0, lower |-> 0]
    /\ ic_acc = Float32(0, 0)
    /\ under_ci_upper = Float32(0, 0)
    /\ over_ci_lower = Float32(0, 0)

\* one regressor(X) of the list comprehension: a stochastic forward pass on
\* the whole batch
EvalForwardPass ==
    /\ epc = "sample"
    /\ UNCHANGED <<predictVars, geoVars, trainVars>>
    /\ Len(preds) < samples
    /\ preds' = Append(preds,
                  [i \in DOMAIN X_eval |->
                      Regressor(X_eval[i], 1, eval_seed, Len(preds)).data[1]])
    /\ UNCHANGED <<epc, X_eval, y_eval, samples, std_multiplier, eval_seed,
                   hits, ic_acc, under_ci_upper, over_ci_lower>>

\* torch.stack of an empty list raises
EvalStackEmpty ==
    /\ epc = "sample"
    /\ UNCHANGED <<predictVars, geoVars, trainVars>>
    /\ Len(preds) = samples
    /\ preds = <<>>
    /\ epc' = "raised"
    /\ UNCHANGED <<X_eval, y_eval, samples, std_multiplier, eval_seed, preds,
                   hits, ic_acc, under_ci_upper, over_ci_lower>>

\* the statistics, the two bounds, the three tests and their means
EvalReturn ==
    /\ epc = "sample"
    /\ UNCHANGED <<predictVars, geoVars, trainVars>>
    /\ Len(preds) = samples
    /\ preds # <<>>
    /\ hits' = [inside |-> Cardinality(InsideHits(preds, std_multiplier, y_eval)),
                upper  |-> Cardinality(UpperHits(preds, std_multiplier, y_eval)),
                lower  |-> Cardinality(LowerHits(preds, std_multiplier, y_eval))]
    /\ ic_acc' = Float32Div(hits'.inside, Len(y_eval))
    /\ under_ci_upper' = Float32Div(hits'.upper, Len(y_eval))
    /\ over_ci_lower' = Float32Div(hits'.lower, Len(y_eval))
    /\ epc' = "returned"
    /\ UNCHANGED <<X_eval, y_eval, samples, std_multiplier, eval_seed, preds>>

NextEval ==
    \/ EvalForwardPass
    \/ EvalStackEmpty
    \/ EvalReturn

SpecEval == InitEval /\ [][NextEval]_vars


(* ------------------------------ claims --------------------------------- *)
\* the run is past its inference loop: every input row has its results
LoopOver ==
    /\ pc \in {"raised", "merge", "drop", "export", "done"}
    /\ Len(X_norm) >= 1
    /\ Len(predicted) = Len(X_norm)

\* C1: whenever latent_csv names no existing file, predict_impl stops at the
\* check of the latent file: it is at that check or has exited, and no later
\* step is reached.
C1_MissingLatentIsFatal ==
    ~IsFile(latent_csv) => pc \in {"check_latent", "exited"}

\* C2: whenever output_network_filename names no existing file, the run gets
\* no further than the check of the network, where Console.quit prints the
\* reason once and exits: no latent data is loaded, no forward pass is made,
\* no output CSV is written.
C2_MissingNetworkIsFatal ==
    ~IsFile(output_network_filename) =>
        /\ pc \in {"check_latent", "check_network", "exited"}
        /\ df = NoTable /\ np_latent = <<>>
        /\ passes = <<>> /\ rng = 0
        /\ written = <<>>
        /\ pc = "exited" =>
              /\ console[Len(console)] = "quit"
              /\ Cardinality({k \in DOMAIN console : console[k] = "quit"}) = 1

C2_Witness ==
    /\ ~IsFile(output_network_filename)
    /\ IsFile(latent_csv)
    /\ pc = "exited"

\* C3: the CSV written by a completed run has, for each i in 0..D-1, a column
\* pred_<key>_<i> and a column std_<key>_<i>, key being target_key or
\* "predicted" when none is given.
C3_PredictionColumnsExported ==
    pc = "done" =>
        LET key == IF target_key # <<>> THEN target_key ELSE PredictedKey
        IN  \A i \in 0..(output_size - 1) :
                /\ PredColumn(key, i) \in Range(written[1].cols)
                /\ StdColumn(key, i) \in Range(written[1].cols)

\* C4: for N >= 1 input rows and D >= 1 outputs, a run that is past its
\* inference loop completes with exactly N prediction rows, the j-th holding
\* the D (mean, standard deviation) pairs computed from the j-th input row
\* beside that row's metadata; N = 1 and D = 1 included.
C4_RowsWithPairs ==
    LoopOver =>
        /\ pc # "raised"
        /\ Len(pdf.rows) = Len(df.rows)
        /\ Len(udf.rows) = Len(df.rows)
        /\ \A j \in DOMAIN pdf.rows :
              /\ pdf.rows[j] = predicted[j].data
              /\ udf.rows[j] = uncertainty[j].data
              /\ Len(pdf.rows[j]) = output_size
              /\ \A p \in DOMAIN passes[j] : passes[j][p].x = np_latent[j]
        /\ pc = "done" =>
              /\ Len(written[1].rows) = Len(df.rows)
              /\ \A j \in DOMAIN df.rows :
                    /\ written[1].rows[j][2] = df.ids[j]
                    /\ written[1].rows[j][3] = df.rows[j][1]

\* the inference loop has been entered
InLoop == pc \in {"row", "sample", "raised", "merge", "drop", "export", "done"}
              /\ X_norm # <<>>

\* the samples of row j: the outputs of its forward passes, in order
SamplesOfRow(j) == [p \in DOMAIN passes[j] |-> passes[j][p].y]

\* C5 as stated: K is num_samples whenever num_samples is given, and 20
\* otherwise; every finished row has had exactly K forward passes.
C5_KIsNumSamples ==
    InLoop =>
        LET K == IF num_samples # <<>> THEN num_samples[1] ELSE 20
        IN  \A j \in 1..Len(predicted) : Len(passes[j]) = K

\* C5 (amended): with K = num_samples when num_samples is a positive number
\* and K = 20 when it is absent or 0, every finished row has had exactly K
\* forward passes, all on that row's input and rows in input order; its mean
\* and standard deviation are those of its own K samples; predicted and
\* uncertainty have one entry per finished row, and after the loop there
\* have been N*K forward passes and both lists have length N.
C5_KPassesPerRow ==
    InLoop =>
        LET K == IF num_samples \in {<<>>, <<0>>} THEN 20 ELSE num_samples[1]
            N == Len(df.rows)
        IN  /\ Len(predicted) = idx /\ Len(uncertainty) = idx
            /\ \A j \in 1..Len(predicted) :
                  /\ Len(passes[j]) = K
                  /\ \A p \in DOMAIN passes[j] : passes[j][p].x = np_latent[j]
                  /\ predicted[j] =
                        TimesMean(MeanAxis0(SamplesOfRow(j)), scaling_factor)
                  /\ uncertainty[j] =
                        TimesStd(StdAxis0(SamplesOfRow(j)), scaling_factor)
            /\ pc = "sample" => Len(passes[idx + 1]) = n /\ n <= K
            /\ (pc \in {"merge", "drop", "export", "done"} \/ LoopOver) =>
                  /\ rng = N * K
                  /\ SumSeq([j \in DOMAIN passes |-> Len(passes[j])]) = N * K
                  /\ Len(predicted) = N /\ Len(uncertainty) = N

C5_Witness ==
    /\ pc = "done"
    /\ Len(predicted) = 2
    /\ num_samples = <<2>>
    /\ rng = 4

\* C6: the columns loaded as network input are exactly those the caller's
\* latent_key matches ("latent_" when none is given), the key that also
\* selects the columns dropped from the output.
C6_LatentKeySelectsInput ==
    df # NoTable =>
        LET key == IF latent_key # <<>> THEN latent_key ELSE LatentPrefix
        IN  /\ np_latent = FilterValues(df, key)
            /\ n_latents = Len(FilterRegex(df.cols, key))

\* equality of two rationals <<num, den>>
RatEq(a, b) == a[1] * b[2] = b[1] * a[2]

Sign(v) == IF v > 0 THEN 1 ELSE IF v < 0 THEN -1 ELSE 0

\* equality of two values coef * sqrt(num / den), with num >= 0 and den > 0
SurdEq(a, b) ==
    /\ Sign(a.coef) * Sign(a.num) = Sign(b.coef) * Sign(b.num)
    /\ a.coef * a.coef * a.num * b.den = b.coef * b.coef * b.num * a.den

\* s times the mean of the values ys
ScaledMean(ys, s) == <<s * SumSeq(ys), Len(ys)>>

\* s times the root of the mean squared deviation of the values ys from
\* their mean: sum((K*y - S)^2) / K^3 under the root
ScaledDeviation(ys, s) ==
    LET K == Len(ys)
        S == SumSeq(ys)
    IN  [coef |-> s,
         num |-> SumSeq([k \in DOMAIN ys |-> (K * ys[k] - S) * (K * ys[k] - S)]),
         den |-> K * K * K]

\* the recorded results of every finished row are s times the mean and s
\* times the deviation of the row's own samples, and the network was fed
\* the latent data as loaded
RecordedWithScale(s) ==
    /\ \A j \in 1..Len(predicted) :
          /\ \A e \in DOMAIN predicted[j].data :
                LET ys == [p \in DOMAIN passes[j] |-> passes[j][p].y.data[e]]
                IN  /\ RatEq(predicted[j].data[e], ScaledMean(ys, s))
                    /\ SurdEq(uncertainty[j].data[e], ScaledDeviation(ys, s))
          /\ \A p \in DOMAIN passes[j] : passes[j][p].x = np_latent[j]
    /\ X_norm = np_latent

CleanedRows(t, prefix) ==
    LET m == FilterValues(t, prefix)
        RECURSIVE R(_)
        R(j) == IF j > Len(m) THEN <<>>
                ELSE (IF j \in t.nan THEN <<>> ELSE <<m[j]>>) \o R(j + 1)
    IN  R(1)

\* C8: load_dataset returns the dataset (the cells of the columns the prefix
\* matches, rows with NaN removed) together with the number of latent
\* columns.
C8_ReturnsCleanedDataset ==
    gpc \in {"exit", "exited"} =>
        /\ yd = Len(FilterRegex(dataset_file[1].cols, LatentPrefix))
        /\ Xd.kind = "rows"
        /\ Xd.val = CleanedRows(dataset_file[1], LatentPrefix)

\* C9: a run of main ends only after the last of the 100 epochs of training.
C9_EndsAfterLastEpoch ==
    gpc = "exited" => (epoch = NumEpochs /\ iteration > 0)

InputColumns == <<df.index_name>> \o df.cols

\* the cells of row j of the input table, in the order of InputColumns
InputRow(j) == <<df.ids[j]>> \o df.rows[j]

\* the key the export step drops columns by
ExportKey == IF latent_key # <<>> THEN latent_key ELSE LatentPrefix

\* the names of the prediction columns of the run
PredictionColumns ==
    LET key == IF target_key # <<>> THEN target_key ELSE PredictedKey
    IN  {PredColumn(key, i) : i \in 0..(output_size - 1)}
            \cup {StdColumn(key, i) : i \in 0..(output_size - 1)}

\* every input column the key does not match is in the written CSV, with
\* the cell of every input row unchanged
OtherColumnsKept ==
    \A c \in DOMAIN InputColumns :
        ~ReSearch(ExportKey, InputColumns[c]) =>
            \E w \in DOMAIN written[1].cols :
                /\ written[1].cols[w] = InputColumns[c]
                /\ Len(written[1].rows) = Len(df.rows)
                /\ \A j \in DOMAIN df.rows :
                      written[1].rows[j][w] = InputRow(j)[c]

\* C11 as stated: the written CSV differs from the input table only by
\* appended prediction columns and removed latent columns: it has no column
\* the latent input key matches, every other input column (the identifier
\* included) is in it with its cells unchanged, and it has no further column.
C11_OnlyAppendAndDrop ==
    pc = "done" =>
        /\ \A w \in DOMAIN written[1].cols :
              /\ ~ReSearch(ExportKey, written[1].cols[w])
              /\ written[1].cols[w] \in Range(InputColumns) \cup PredictionColumns
        /\ OtherColumnsKept

\* C11 (amended): the written CSV starts with a column named index that
\* holds the row numbers 0..N-1, which to_csv adds; of its other columns
\* none matches the latent input key and each is an input column or a
\* prediction column; every input column the key does not match (the
\* identifier included, unless the key matches its name) is in it with its
\* cell unchanged in every row.
C11_ExportFrame ==
    pc = "done" =>
        /\ written[1].cols[1] = IndexName
        /\ \A j \in DOMAIN written[1].rows : written[1].rows[j][1] = j - 1
        /\ \A w \in 2..Len(written[1].cols) :
              /\ ~ReSearch(ExportKey, written[1].cols[w])
              /\ written[1].cols[w] \in Range(InputColumns) \cup PredictionColumns
        /\ OtherColumnsKept

C11_Witness ==
    /\ pc = "done"
    /\ \E c \in DOMAIN df.cols : ReSearch(ExportKey, df.cols[c])
    /\ Len(written[1].cols) < Len(output_df.cols) + 1 + Len(df.cols)
    /\ <<"i", "d">> \in Range(written[1].cols)

\* a float32 between 0 and 1 in units of 2^-26
Units(f) == f.m * Pow2(26 - f.e)

One == Pow2(26)

Returned == epc = "returned" /\ std_multiplier >= 0

FractionsOrdered ==
    /\ Units(ic_acc) <= Units(under_ci_upper)
    /\ Units(ic_acc) <= Units(over_ci_lower)
    /\ \A f \in {ic_acc, under_ci_upper, over_ci_lower} :
          0 <= Units(f) /\ Units(f) <= One

\* C12 as stated: for std_multiplier >= 0 every target passes at least one
\* of the two one-sided tests, the inside-interval fraction is at most each
\* one-sided fraction and equals their sum minus 1, and all three fractions
\* lie in [0, 1]
C12_InsideIsSumMinusOne ==
    Returned =>
        /\ \A i \in DOMAIN y_eval :
              \/ BoundGe(CiUpper(preds, std_multiplier, i), y_eval[i])
              \/ BoundLe(CiLower(preds, std_multiplier, i), y_eval[i])
        /\ FractionsOrdered
        /\ Units(ic_acc) = Units(under_ci_upper) + Units(over_ci_lower) - One

\* C12 (amended): for std_multiplier >= 0 and at least two samples, every
\* target passes at least one of the two one-sided tests, the number of
\* targets inside the interval is the sum of the two one-sided numbers minus
\* the number of targets, the inside-interval fraction is at most each
\* one-sided fraction, all three fractions lie in [0, 1], and the
\* inside-interval fraction differs from the sum of the other two minus 1 by
\* at most 2^-23, the rounding of the three float32 means
C12_InsideIsSumMinusOneRounded ==
    (Returned /\ samples >= 2) =>
        /\ \A i \in DOMAIN y_eval :
              \/ BoundGe(CiUpper(preds, std_multiplier, i), y_eval[i])
              \/ BoundLe(CiLower(preds, std_multiplier, i), y_eval[i])
        /\ hits.inside = hits.upper + hits.lower - Len(y_eval)
        /\ FractionsOrdered
        /\ LET gap == Units(ic_acc)
                        - (Units(under_ci_upper) + Units(over_ci_lower) - One)
           IN  -8 <= gap /\ gap <= 8

\* two samples, three targets: one above its interval, one below, one inside,
\* and the three returned means do not add up exactly
C12_Witness ==
    /\ Returned
    /\ samples = 2
    /\ std_multiplier > 0
    /\ hits = [inside |-> 1, upper |-> 2, lower |-> 2]
    /\ Len(y_eval) = 3
    /\ Units(ic_acc) # Units(under_ci_upper) + Units(over_ci_lower) - One

====
